---- MODULE Spec2Model ----
(***************************************************************************)
(* A model of disk_analyzer.py: the duplicate-detection pipeline           *)
(* (find_duplicates and its hashing helpers), the wasted-space sum of the  *)
(* reports, and the leaf aggregation of calculate_actual_total.            *)
(*                                                                         *)
(* Conventions.                                                            *)
(*  - A file path is its rank in the lexicographic order of the paths of   *)
(*    the input (1 is the smallest path, e.g. "/a"), so sorting by path is *)
(*    sorting by rank.  A directory path is the sequence of its            *)
(*    components: <<>> is "/", <<"x","y">> is "/x/y".                      *)
(*  - File content is a sequence of 8192-byte blocks, each block a small   *)
(*    number.  A digest is a positive integer, None is 0.                  *)
(*  - A dict is the sequence of its items in insertion order.              *)
(***************************************************************************)
EXTENDS Integers, Sequences, FiniteSets, TLC

VARIABLES
    \* find_duplicates: arguments and environment
    file_data, use_md5, disk,
    \* find_duplicates: locals
    pc, potential_duplicates, hash_tasks, num_workers, cores,
    quick_hash_groups, files_needing_full_hash, full_hash_tasks,
    full_hash_groups, duplicates, duplicate_groups,
    \* multiprocessing.Pool of the current stage
    next_chunk, running, processed,
    \* instrumentation: the paths handed to calculate_quick_hash / calculate_full_hash
    quick_hashed, full_hashed,
    \* the scanned tree: the bytes of the files stored directly in each directory
    dir_files,
    \* calculate_actual_total: argument, locals and result
    folder_data, t_pc, all_paths, parent_paths, todo, parent,
    actual_total, leaf_or_independent

dupvars == <<file_data, use_md5, disk, pc, potential_duplicates, hash_tasks,
             num_workers, cores, quick_hash_groups, files_needing_full_hash,
             full_hash_tasks, full_hash_groups, duplicates, duplicate_groups,
             next_chunk, running, processed, quick_hashed, full_hashed>>

totvars == <<dir_files, folder_data, t_pc, all_paths, parent_paths, todo,
             parent, actual_total, leaf_or_independent>>

vars == <<dupvars, totvars>>

---------------------------------------------------------------------------
(* Bounds of the model *)

\* the most file records the walker hands to find_duplicates
MaxFiles == 3
\* the most cores cpu_count() reports
MaxCores == 2
\* the most file records when every file is readable
MaxReadable == 5
\* the most directory records handed to calculate_actual_total
MaxDirs == 3
\* the largest num_workers a caller passes
MaxWorkersArg == 3

(* Program constants *)

\* files below 1 KiB are skipped (line 125)
MinSize == 1024
\* f.read(8192) of calculate_quick_hash (line 72)
QuickBytes == 8192
\* f.read(65536) of calculate_full_hash (line 86)
ChunkBytes == 65536
\* the unit of file content in this model: one block is 8192 bytes
BlockBytes == 8192
\* the cap on the worker pool (line 157)
MaxWorkers == 8
\* a stage hands its tasks to the pool above this many files.  The program's
\* value is 1000 (lines 161 and 200); it is scaled down, with chunksize, so
\* that both the sequential and the pool path occur within MaxFiles.
PoolThreshold == 2
\* tasks per pool chunk; the program's value is 100 (lines 163 and 202), scaled
\* with PoolThreshold (fewer tasks per chunk than the threshold)
chunksize == 2

None == 0

\* the physical sizes a file may have: one below MinSize, two above
Sizes == {500, 1200, 2000}

\* contents: the first two share their first block (same quick fingerprint)
Contents == { <<1, 1>>, <<1, 2>>, <<2, 1>> }

\* what open()/read() of a file does: quick_ok, the read of calculate_quick_hash
\* succeeds; full_ok, the later read of calculate_full_hash succeeds (a file
\* may vanish or lose its permissions between the two; an unreadable file
\* stays unreadable).  The content of a file that cannot be read to its end
\* is left at one value.
DiskEntries ==
    { e \in [content : Contents, quick_ok : BOOLEAN, full_ok : BOOLEAN] :
        /\ e.full_ok => e.quick_ok
        /\ ~e.full_ok => e.content = <<1, 1>> }

\* a file that is there and readable
Readable == [content |-> <<1, 1>>, quick_ok |-> TRUE, full_ok |-> TRUE]

Min(a, b) == IF a < b THEN a ELSE b

---------------------------------------------------------------------------
(* hashlib.md5 *)

\* hash_obj.update(data): the digest state after feeding the blocks of data
RECURSIVE md5_update(_, _)
md5_update(h, data) ==
    IF data = <<>> THEN h
    ELSE md5_update(h * 3 + Head(data), Tail(data))

\* hashlib.md5(): the initial state; hexdigest() of a state is the state
md5_new == 1

\* f.read(n) at block offset off: the next n bytes, fewer at the end of file
read(content, off, nbytes) ==
    SubSeq(content, off + 1, Min(Len(content), off + nbytes \div BlockBytes))

\* calculate_quick_hash: the digest of the first 8192 bytes, None if unreadable
calculate_quick_hash(file_path, size) ==
    IF disk[file_path].quick_ok
    THEN md5_update(md5_new, read(disk[file_path].content, 0, QuickBytes))
    ELSE None

\* the loop of calculate_full_hash: feed 64 KiB chunks until read returns b''
RECURSIVE full_hash_loop(_, _, _)
full_hash_loop(h, content, off) ==
    LET chunk == read(content, off, ChunkBytes) IN
    IF chunk = <<>> THEN h
    ELSE full_hash_loop(md5_update(h, chunk), content, off + Len(chunk))

\* a variant of calculate_full_hash that stops after the first 8192 bytes
calculate_full_hash_first_block(file_path, size) ==
    IF disk[file_path].full_ok
    THEN md5_update(md5_new, read(disk[file_path].content, 0, QuickBytes))
    ELSE None

\* a variant of calculate_full_hash that returns the digest of what it has
\* read, nothing, when the file is unreadable
calculate_full_hash_unchecked(file_path, size) ==
    IF disk[file_path].full_ok
    THEN full_hash_loop(md5_new, disk[file_path].content, 0)
    ELSE md5_new

\* calculate_full_hash: the digest of the whole file, None if unreadable
calculate_full_hash(file_path, size) ==
    IF disk[file_path].full_ok
    THEN full_hash_loop(md5_new, disk[file_path].content, 0)
    ELSE None

\* _quick_hash_worker: (size, quick_hash, file_info), or None as <<>>
quick_hash_worker(args) ==
    LET file_info == args[1]
        size == args[2]
        quick_hash == calculate_quick_hash(file_info.path, size)
    IN IF quick_hash # None THEN <<size, quick_hash, file_info>> ELSE <<>>

\* a variant of full_hash_worker that returns its tuple when the hash is None
full_hash_worker_unchecked(args) ==
    LET file_info == args[1]
        size == args[2]
        full_hash == calculate_full_hash(file_info.path, size)
    IN <<size, full_hash, [file_info EXCEPT !.hash = full_hash]>>

\* _full_hash_worker: sets file_info['hash'] on its record and returns
\* (size, full_hash, file_info), or None as <<>>
full_hash_worker(args) ==
    LET file_info == args[1]
        size == args[2]
        full_hash == calculate_full_hash(file_info.path, size)
    IN IF full_hash # None
       THEN <<size, full_hash, [file_info EXCEPT !.hash = full_hash]>>
       ELSE <<>>

---------------------------------------------------------------------------
(* dicts and sorting *)

HasKey(d, k) == \E i \in 1..Len(d) : d[i].key = k

\* defaultdict(list)[k].append(f): a new key goes last
GroupAppend(d, k, f) ==
    IF HasKey(d, k)
    THEN [i \in 1..Len(d) |->
            IF d[i].key = k THEN [d[i] EXCEPT !.files = Append(@, f)] ELSE d[i]]
    ELSE Append(d, [key |-> k, files |-> <<f>>])

\* a variant of FilterLen that wants more than minlen files
RECURSIVE FilterLenMoreThan(_, _)
FilterLenMoreThan(d, minlen) ==
    IF d = <<>> THEN <<>>
    ELSE IF Len(Head(d).files) > minlen
         THEN <<Head(d)>> \o FilterLenMoreThan(Tail(d), minlen)
         ELSE FilterLenMoreThan(Tail(d), minlen)

\* the items of d whose list satisfies the length test, in d's order
RECURSIVE FilterLen(_, _)
FilterLen(d, minlen) ==
    IF d = <<>> THEN <<>>
    ELSE IF Len(Head(d).files) >= minlen
         THEN <<Head(d)>> \o FilterLen(Tail(d), minlen)
         ELSE FilterLen(Tail(d), minlen)

\* [f for item in d for f in item.files]
RECURSIVE Flatten(_)
Flatten(d) ==
    IF d = <<>> THEN <<>> ELSE Head(d).files \o Flatten(Tail(d))

\* list insertion keeping ascending path order, after equal paths (stable)
RECURSIVE InsertByPath(_, _)
InsertByPath(sorted, f) ==
    IF sorted = <<>> THEN <<f>>
    ELSE IF Head(sorted).path <= f.path
         THEN <<Head(sorted)>> \o InsertByPath(Tail(sorted), f)
         ELSE <<f>> \o sorted

\* a variant of SortedByPath that leaves the files in the order of the list
SortedByPathUnsorted(files) == files

\* sorted(files, key=lambda x: x['path'])
RECURSIVE SortedByPath(_)
SortedByPath(files) ==
    IF files = <<>> THEN <<>>
    ELSE InsertByPath(SortedByPath(SubSeq(files, 1, Len(files) - 1)),
                      files[Len(files)])

\* key=lambda group: len(group) * group[0]['size']
SortKey(group) == Len(group) * group[1].size

\* insertion into a list that is descending by SortKey, after equal keys:
\* list.sort(reverse=True) is stable, groups with equal keys keep their order
RECURSIVE InsertByKeyDesc(_, _)
InsertByKeyDesc(sorted, g) ==
    IF sorted = <<>> THEN <<g>>
    ELSE IF SortKey(Head(sorted)) >= SortKey(g)
         THEN <<Head(sorted)>> \o InsertByKeyDesc(Tail(sorted), g)
         ELSE <<g>> \o sorted

\* duplicate_groups.sort(key=..., reverse=True)
RECURSIVE SortGroups(_)
SortGroups(groups) ==
    IF groups = <<>> THEN <<>>
    ELSE InsertByKeyDesc(SortGroups(SubSeq(groups, 1, Len(groups) - 1)),
                         groups[Len(groups)])

---------------------------------------------------------------------------
(* find_duplicates *)

\* a variant of SizeGroups that skips no file
RECURSIVE SizeGroupsNoThreshold(_)
SizeGroupsNoThreshold(fd) ==
    IF fd = <<>> THEN <<>>
    ELSE GroupAppend(SizeGroupsNoThreshold(SubSeq(fd, 1, Len(fd) - 1)),
                     fd[Len(fd)].size, fd[Len(fd)])

\* Step 1, the loop of lines 122-126: size_groups, files below MinSize skipped
RECURSIVE SizeGroups(_)
SizeGroups(fd) ==
    IF fd = <<>> THEN <<>>
    ELSE LET rest == SizeGroups(SubSeq(fd, 1, Len(fd) - 1))
             file_info == fd[Len(fd)]
         IN IF file_info.size >= MinSize
            THEN GroupAppend(rest, file_info.size, file_info)
            ELSE rest

\* a variant of PotentialDuplicates that keeps the sizes of a single file
PotentialDuplicatesAll(fd) == FilterLen(SizeGroups(fd), 1)

\* line 129: only the size groups with 2+ files
PotentialDuplicates(fd) == FilterLen(SizeGroups(fd), 2)

\* lines 155 and 195: [(f, f['size']) for f in files]
RECURSIVE Tasks(_)
Tasks(files) ==
    IF files = <<>> THEN <<>>
    ELSE <<<<Head(files), Head(files).size>>>> \o Tasks(Tail(files))

\* a variant of Collect that groups by size alone
CollectBySizeOnly(groups, result) ==
    IF result # <<>>
    THEN GroupAppend(groups, <<result[1], None>>, result[3])
    ELSE groups

\* a variant of Collect that groups by hash alone
CollectByHashOnly(groups, result) ==
    IF result # <<>>
    THEN GroupAppend(groups, <<None, result[2]>>, result[3])
    ELSE groups

\* a variant of Collect that keeps only the latest file of a (size, hash) key
CollectLatest(groups, result) ==
    IF result # <<>>
    THEN LET k == <<result[1], result[2]>> IN
         IF HasKey(groups, k)
         THEN [i \in 1..Len(groups) |->
                 IF groups[i].key = k
                 THEN [groups[i] EXCEPT !.files = <<result[3]>>]
                 ELSE groups[i]]
         ELSE Append(groups, [key |-> k, files |-> <<result[3]>>])
    ELSE groups

\* a variant of Collect that also files the result under its size alone
CollectAlsoBySize(groups, result) ==
    IF result # <<>>
    THEN GroupAppend(GroupAppend(groups, <<result[1], result[2]>>, result[3]),
                     <<result[1], None>>, result[3])
    ELSE groups

\* lines 164-166 and 203-205: a worker's result joins its (size, hash) group
Collect(groups, result) ==
    IF result # <<>>
    THEN GroupAppend(groups, <<result[1], result[2]>>, result[3])
    ELSE groups

\* collecting the results of the tasks, in the order given, into groups
RECURSIVE CollectQuick(_, _)
CollectQuick(groups, tasks) ==
    IF tasks = <<>> THEN groups
    ELSE CollectQuick(Collect(groups, quick_hash_worker(Head(tasks))), Tail(tasks))

RECURSIVE CollectFull(_, _)
CollectFull(groups, tasks) ==
    IF tasks = <<>> THEN groups
    ELSE CollectFull(Collect(groups, full_hash_worker(Head(tasks))), Tail(tasks))

\* the paths of the tasks
TaskPaths(tasks) == { tasks[i][1].path : i \in 1..Len(tasks) }

\* a variant of NumChunks that leaves out a last chunk that is not full
NumChunksFloor(tasks) == Len(tasks) \div chunksize

\* imap_unordered(..., chunksize): the tasks are cut into consecutive chunks
NumChunks(tasks) == (Len(tasks) + chunksize - 1) \div chunksize

Chunk(tasks, c) ==
    SubSeq(tasks, (c - 1) * chunksize + 1, Min(Len(tasks), c * chunksize))

\* lines 143-146 and 229-233: every group sorted by path
RECURSIVE SortedGroups(_)
SortedGroups(d) ==
    IF d = <<>> THEN <<>>
    ELSE <<SortedByPath(Head(d).files)>> \o SortedGroups(Tail(d))

\* a variant of Extend that leaves out the first file of every group
RECURSIVE ExtendCopies(_)
ExtendCopies(groups) ==
    IF groups = <<>> THEN <<>>
    ELSE Tail(Head(groups)) \o ExtendCopies(Tail(groups))

\* duplicates.extend(file_group_sorted) for every group
RECURSIVE Extend(_)
Extend(groups) ==
    IF groups = <<>> THEN <<>> ELSE Head(groups) \o Extend(Tail(groups))

\* a variant of SetHashes that writes the quick hash
RECURSIVE SetHashesQuick(_, _)
SetHashesQuick(fd, paths) ==
    IF fd = <<>> THEN <<>>
    ELSE LET f == Head(fd)
             h == calculate_quick_hash(f.path, f.size)
         IN <<IF f.path \in paths /\ h # None THEN [f EXCEPT !.hash = h] ELSE f>>
            \o SetHashesQuick(Tail(fd), paths)

\* lines 219-223 write file_info['hash'] on the caller's records when the
\* records reached the full-hash loop without passing through a pool (a pool
\* returns pickled copies)
RECURSIVE SetHashes(_, _)
SetHashes(fd, paths) ==
    IF fd = <<>> THEN <<>>
    ELSE LET f == Head(fd)
             h == calculate_full_hash(f.path, f.size)
         IN <<IF f.path \in paths /\ h # None THEN [f EXCEPT !.hash = h] ELSE f>>
            \o SetHashes(Tail(fd), paths)

\* lines 121-135 and 151-159: step 1, the early return, the choice of mode
Start ==
    /\ pc = "start"
    /\ potential_duplicates' = PotentialDuplicates(file_data)
    /\ IF potential_duplicates' = <<>>
       THEN /\ pc' = "done"
            /\ UNCHANGED <<hash_tasks, num_workers, cores>>
       ELSE IF ~use_md5
       THEN /\ pc' = "fast"
            /\ UNCHANGED <<hash_tasks, num_workers, cores>>
       ELSE /\ pc' = "quick"
            /\ hash_tasks' = Tasks(Flatten(potential_duplicates'))
            \* line 157: num_workers or min(cpu_count(), 8)
            /\ \E cpu_count \in 1..MaxCores :
                /\ cores' = cpu_count
                /\ num_workers' = IF num_workers # None
                                  THEN num_workers
                                  ELSE Min(cpu_count, MaxWorkers)
    /\ UNCHANGED totvars
    /\ UNCHANGED <<file_data, use_md5, disk, quick_hash_groups,
                   files_needing_full_hash, full_hash_tasks, full_hash_groups,
                   duplicates, duplicate_groups, next_chunk, running, processed,
                   quick_hashed, full_hashed>>

\* lines 138-149: without MD5 the size groups are the duplicate groups
FastGroup ==
    /\ pc = "fast"
    /\ duplicates' = Extend(SortedGroups(potential_duplicates))
    /\ duplicate_groups' = SortGroups(SortedGroups(potential_duplicates))
    /\ pc' = "done"
    /\ UNCHANGED totvars
    /\ UNCHANGED <<file_data, use_md5, disk, potential_duplicates, hash_tasks,
                   num_workers, cores, quick_hash_groups, files_needing_full_hash,
                   full_hash_tasks, full_hash_groups, next_chunk, running,
                   processed, quick_hashed, full_hashed>>

\* lines 173-177: the sequential quick-hash loop
QuickSeq ==
    /\ pc = "quick"
    /\ ~(Len(hash_tasks) > PoolThreshold)
    /\ quick_hash_groups' = CollectQuick(quick_hash_groups, hash_tasks)
    /\ quick_hashed' = quick_hashed \cup TaskPaths(hash_tasks)
    /\ pc' = "select"
    /\ UNCHANGED totvars
    /\ UNCHANGED <<file_data, use_md5, disk, potential_duplicates, hash_tasks,
                   num_workers, cores, files_needing_full_hash, full_hash_tasks,
                   full_hash_groups, duplicates, duplicate_groups, next_chunk,
                   running, processed, full_hashed>>

\* the tasks of the stage the pool is serving
PoolTasks == IF pc = "quick" THEN hash_tasks ELSE full_hash_tasks

PoolStage ==
    \/ pc = "quick" /\ Len(hash_tasks) > PoolThreshold
    \/ pc = "full" /\ Len(files_needing_full_hash) > PoolThreshold

\* Pool(processes=num_workers): an idle worker takes the next chunk
PoolTake ==
    /\ PoolStage
    /\ next_chunk <= NumChunks(PoolTasks)
    /\ Cardinality(running) < num_workers
    /\ running' = running \cup {next_chunk}
    /\ next_chunk' = next_chunk + 1
    /\ UNCHANGED totvars
    /\ UNCHANGED <<file_data, use_md5, disk, pc, potential_duplicates,
                   hash_tasks, num_workers, cores, quick_hash_groups,
                   files_needing_full_hash, full_hash_tasks, full_hash_groups,
                   duplicates, duplicate_groups, processed, quick_hashed,
                   full_hashed>>

\* a variant of LastChunk that looks at the pool after the chunk has left it
LastChunkAfterRemoval(c) == next_chunk > NumChunks(PoolTasks) /\ running = {}

\* the pool is exhausted once this chunk is in
LastChunk(c) == next_chunk > NumChunks(PoolTasks) /\ running = {c}

\* lines 162-168: a running chunk completes and the loop collects its results
QuickDeliver ==
    /\ pc = "quick"
    /\ PoolStage
    /\ \E c \in running :
        /\ quick_hash_groups' = CollectQuick(quick_hash_groups, Chunk(hash_tasks, c))
        /\ quick_hashed' = quick_hashed \cup TaskPaths(Chunk(hash_tasks, c))
        /\ processed' = processed + Len(Chunk(hash_tasks, c))
        /\ running' = running \ {c}
        /\ IF LastChunk(c)
           THEN pc' = "select" /\ next_chunk' = 1
           ELSE UNCHANGED <<pc, next_chunk>>
    /\ UNCHANGED totvars
    /\ UNCHANGED <<file_data, use_md5, disk, potential_duplicates, hash_tasks,
                   num_workers, cores, files_needing_full_hash, full_hash_tasks,
                   full_hash_groups, duplicates, duplicate_groups, full_hashed>>

\* a variant of FilesNeedingFullHash that keeps every quick-hashed file
FilesNeedingFullHashAll(groups) == Flatten(groups)

\* lines 180-183: the files of the quick-hash groups with 2+ files
FilesNeedingFullHash(groups) == Flatten(FilterLen(groups, 2))

\* lines 179-198: the files that need a full hash, the early return
SelectFull ==
    /\ pc = "select"
    /\ files_needing_full_hash' = FilesNeedingFullHash(quick_hash_groups)
    /\ IF files_needing_full_hash' = <<>>
       THEN pc' = "done" /\ UNCHANGED full_hash_tasks
       ELSE pc' = "full" /\ full_hash_tasks' = Tasks(files_needing_full_hash')
    /\ processed' = 0
    /\ UNCHANGED totvars
    /\ UNCHANGED <<file_data, use_md5, disk, potential_duplicates, hash_tasks,
                   num_workers, cores, quick_hash_groups, full_hash_groups, duplicates,
                   duplicate_groups, next_chunk, running, quick_hashed,
                   full_hashed>>

\* lines 218-223: the sequential full-hash loop
FullSeq ==
    /\ pc = "full"
    /\ ~(Len(files_needing_full_hash) > PoolThreshold)
    /\ full_hash_groups' = CollectFull(full_hash_groups, full_hash_tasks)
    /\ full_hashed' = full_hashed \cup TaskPaths(full_hash_tasks)
    /\ file_data' = IF Len(hash_tasks) > PoolThreshold
                    THEN file_data
                    ELSE SetHashes(file_data, TaskPaths(full_hash_tasks))
    /\ pc' = "extract"
    /\ UNCHANGED totvars
    /\ UNCHANGED <<use_md5, disk, potential_duplicates, hash_tasks, num_workers, cores,
                   quick_hash_groups, files_needing_full_hash, full_hash_tasks,
                   duplicates, duplicate_groups, next_chunk, running, processed,
                   quick_hashed>>

\* lines 200-207: a running chunk completes and the loop collects its results
FullDeliver ==
    /\ pc = "full"
    /\ PoolStage
    /\ \E c \in running :
        /\ full_hash_groups' = CollectFull(full_hash_groups, Chunk(full_hash_tasks, c))
        /\ full_hashed' = full_hashed \cup TaskPaths(Chunk(full_hash_tasks, c))
        /\ processed' = processed + Len(Chunk(full_hash_tasks, c))
        /\ running' = running \ {c}
        /\ IF LastChunk(c)
           THEN pc' = "extract" /\ next_chunk' = 1
           ELSE UNCHANGED <<pc, next_chunk>>
    /\ UNCHANGED totvars
    /\ UNCHANGED <<file_data, use_md5, disk, potential_duplicates, hash_tasks,
                   num_workers, cores, quick_hash_groups, files_needing_full_hash,
                   full_hash_tasks, duplicates, duplicate_groups, quick_hashed>>

\* lines 225-242: the groups with 2+ files, sorted, and the flat list
Extract ==
    /\ pc = "extract"
    /\ duplicates' = Extend(SortedGroups(FilterLen(full_hash_groups, 2)))
    /\ duplicate_groups' = SortGroups(SortedGroups(FilterLen(full_hash_groups, 2)))
    /\ pc' = "done"
    /\ UNCHANGED totvars
    /\ UNCHANGED <<file_data, use_md5, disk, potential_duplicates, hash_tasks,
                   num_workers, cores, quick_hash_groups, files_needing_full_hash,
                   full_hash_tasks, full_hash_groups, next_chunk, running,
                   processed, quick_hashed, full_hashed>>

---------------------------------------------------------------------------
(* The wasted space of the reports *)

\* sum(f['size'] for f in files)
RECURSIVE SumFileSizes(_)
SumFileSizes(files) ==
    IF files = <<>> THEN 0 ELSE Head(files).size + SumFileSizes(Tail(files))

\* main, lines 1519-1522 (and 384-387, 478-481): the sizes of every member
\* but the first, over all groups
RECURSIVE wasted_space(_)
wasted_space(groups) ==
    IF groups = <<>> THEN 0
    ELSE SumFileSizes(Tail(Head(groups))) + wasted_space(Tail(groups))

---------------------------------------------------------------------------
(* The input: what the walker, analyze_directory.scan_dir, hands over *)

\* os.scandir yields entries in no particular order: the orders modelled are
\* ascending and descending by path
ScanOrders(n) == { [i \in 1..n |-> i], [i \in 1..n |-> n + 1 - i] }

\* calculate_actual_total is not running
TotalIdle ==
    /\ dir_files = <<>>
    /\ folder_data = {}
    /\ t_pc = "idle"
    /\ all_paths = {}
    /\ parent_paths = {}
    /\ todo = {}
    /\ parent = <<>>
    /\ actual_total = 0
    /\ leaf_or_independent = {}

\* lines 285-291: one record per file, without a hash
FileData(n, order, sizes) ==
    [i \in 1..n |-> [path |-> order[i], size |-> sizes[order[i]], hash |-> None]]

\* the locals before the first statement, and the cores not yet counted
LocalsStart ==
    /\ cores = 0
    /\ pc = "start"
    /\ potential_duplicates = <<>>
    /\ hash_tasks = <<>>
    /\ quick_hash_groups = <<>>
    /\ files_needing_full_hash = <<>>
    /\ full_hash_tasks = <<>>
    /\ full_hash_groups = <<>>
    /\ duplicates = <<>>
    /\ duplicate_groups = <<>>
    /\ next_chunk = 1
    /\ running = {}
    /\ processed = 0
    /\ quick_hashed = {}
    /\ full_hashed = {}

\* find_duplicates called without num_workers
Locals0 ==
    /\ num_workers = None
    /\ LocalsStart

\* any files, readable or not, scanned in either order
Init ==
    /\ \E n \in 0..MaxFiles :
        \E order \in ScanOrders(n), sizes \in [1..n -> Sizes] :
            /\ file_data = FileData(n, order, sizes)
            /\ disk \in [1..n -> DiskEntries]
            \* the content of a file below MinSize is left at one value
            /\ \A p \in 1..n : sizes[p] < MinSize => disk[p] = Readable
            /\ use_md5 \in BOOLEAN
            \* fast mode opens no file: the files are left readable
            /\ ~use_md5 => \A p \in 1..n : disk[p].full_ok
    /\ Locals0
    /\ TotalIdle

\* readable files of at least MinSize only, of two contents that differ after
\* their first block, scanned in either order
InitReadable ==
    /\ \E n \in 0..MaxReadable :
        \E order \in ScanOrders(n),
           sizes \in [1..n -> { s \in Sizes : s >= MinSize }] :
            /\ file_data = FileData(n, order, sizes)
            /\ disk \in [1..n -> { e \in DiskEntries :
                                     e.full_ok /\ e.content[1] = 1 }]
            \* the two contents are alike: the first path has the first
            /\ n > 0 => disk[1].content = <<1, 1>>
    /\ use_md5 \in BOOLEAN
    /\ Locals0
    /\ TotalIdle

\* find_duplicates called with or without num_workers, on readable files of
\* one size and one content
InitWorkers ==
    /\ \E n \in 0..MaxReadable :
        /\ file_data = FileData(n, [i \in 1..n |-> i], [i \in 1..n |-> 1200])
        /\ disk = [i \in 1..n |-> Readable]
    /\ use_md5 \in BOOLEAN
    /\ num_workers \in {None} \cup 1..MaxWorkersArg
    /\ LocalsStart
    /\ TotalIdle

\* files of one size and one content, readable or not, scanned in ascending
\* order
InitOneSize ==
    /\ \E n \in 0..MaxFiles :
        /\ file_data = FileData(n, [i \in 1..n |-> i], [i \in 1..n |-> 1200])
        /\ disk \in [1..n -> { e \in DiskEntries : e.content = <<1, 1>> }]
        /\ use_md5 \in BOOLEAN
        /\ ~use_md5 => \A p \in 1..n : disk[p].full_ok
    /\ Locals0
    /\ TotalIdle

Next ==
    \/ Start
    \/ FastGroup
    \/ QuickSeq
    \/ PoolTake
    \/ QuickDeliver
    \/ SelectFull
    \/ FullSeq
    \/ FullDeliver
    \/ Extract

Spec == Init /\ [][Next]_vars

---------------------------------------------------------------------------
(* calculate_actual_total *)

\* the directory tree the records are drawn from: "/", "/v", "/v/y", "/x",
\* "/x/w", "/x/y", "/x/y/z"
DirPaths ==
    { <<>>, <<"v">>, <<"v", "y">>, <<"x">>, <<"x", "w">>, <<"x", "y">>,
      <<"x", "y", "z">> }

\* the sizes a directory record may carry
DirSizes == {400, 1000}

\* os.path.dirname of an absolute path: "/x/y" -> "/x", "/x" -> "/", "/" -> "/"
dirname(path) ==
    IF path = <<>> THEN <<>> ELSE SubSeq(path, 1, Len(path) - 1)

\* the truth value of a path string: only '' is false, and no absolute path
\* is ''
Truthy(path) == TRUE

\* a variant of SumSizes that counts every size once
RECURSIVE SumSizesDistinct(_)
SumSizesDistinct(records) ==
    IF records = {} THEN 0
    ELSE LET f == CHOOSE r \in records : TRUE
         IN f.size + SumSizesDistinct({ r \in records : r.size # f.size })

\* sum(f['size'] for f in records)
RECURSIVE SumSizes(_)
SumSizes(records) ==
    IF records = {} THEN 0
    ELSE LET f == CHOOSE r \in records : TRUE
         IN f.size + SumSizes(records \ {f})

\* path_to_folder[path]
path_to_folder(path) == CHOOSE f \in folder_data : f.path = path

\* lines 366-372: the records whose path is not in parent_paths
LeafRecords(paths, parents) ==
    { path_to_folder(path) : path \in { q \in paths : q \notin parents } }

\* lines 348-357: the empty input returns at once; else the path set is built
TotalStart ==
    /\ t_pc = "start"
    /\ IF folder_data = {}
       THEN /\ t_pc' = "done"
            /\ actual_total' = 0
            /\ leaf_or_independent' = {}
            /\ UNCHANGED <<all_paths, todo>>
       ELSE /\ t_pc' = "loop"
            /\ all_paths' = { f.path : f \in folder_data }
            /\ todo' = all_paths'
            /\ UNCHANGED <<actual_total, leaf_or_independent>>
    /\ parent_paths' = {}
    /\ UNCHANGED <<dir_files, folder_data, parent>>
    /\ UNCHANGED dupvars

\* lines 358-360: the next path of the set, in the set's order; its parent
TotalPick ==
    /\ t_pc = "loop"
    /\ \E path \in todo :
        /\ todo' = todo \ {path}
        /\ parent' = dirname(path)
    /\ t_pc' = "walk"
    /\ UNCHANGED <<dir_files, folder_data, all_paths, parent_paths, actual_total,
                   leaf_or_independent>>
    /\ UNCHANGED dupvars

\* lines 362-364: one turn of the while loop
TotalWalk ==
    /\ t_pc = "walk"
    /\ Truthy(parent) /\ parent \in all_paths
    /\ parent_paths' = parent_paths \cup {parent}
    /\ parent' = dirname(parent)
    /\ UNCHANGED <<dir_files, folder_data, t_pc, all_paths, todo, actual_total,
                   leaf_or_independent>>
    /\ UNCHANGED dupvars

\* line 362: the while loop ends
TotalWalkEnd ==
    /\ t_pc = "walk"
    /\ ~(Truthy(parent) /\ parent \in all_paths)
    /\ t_pc' = "loop"
    /\ UNCHANGED <<dir_files, folder_data, all_paths, parent_paths, todo, parent,
                   actual_total, leaf_or_independent>>
    /\ UNCHANGED dupvars

\* lines 366-374: the leaves and their sum
TotalReturn ==
    /\ t_pc = "loop"
    /\ todo = {}
    /\ leaf_or_independent' = LeafRecords(all_paths, parent_paths)
    /\ actual_total' = SumSizes(leaf_or_independent')
    /\ t_pc' = "done"
    /\ UNCHANGED <<dir_files, folder_data, all_paths, parent_paths, todo, parent>>
    /\ UNCHANGED dupvars

\* find_duplicates is not running
DupIdle ==
    /\ file_data = <<>>
    /\ disk = <<>>
    /\ use_md5 = TRUE
    /\ Locals0

\* calculate_actual_total is about to run
TotalLocals0 ==
    /\ t_pc = "start"
    /\ all_paths = {}
    /\ parent_paths = {}
    /\ todo = {}
    /\ parent = <<>>
    /\ actual_total = 0
    /\ leaf_or_independent = {}

\* any directory records with distinct paths
InitTotal ==
    /\ \E paths \in SUBSET DirPaths :
        /\ Cardinality(paths) <= MaxDirs
        /\ \E sizes \in [paths -> DirSizes] :
             folder_data = { [path |-> q, size |-> sizes[q]] : q \in paths }
    /\ dir_files = <<>>
    /\ TotalLocals0
    /\ DupIdle

NextTotal ==
    \/ TotalStart
    \/ TotalPick
    \/ TotalWalk
    \/ TotalWalkEnd
    \/ TotalReturn

SpecTotal == InitTotal /\ [][NextTotal]_vars

\* the interpreter keeps running: a statement that can be executed is executed
SpecTotalFair == InitTotal /\ [][NextTotal]_vars /\ WF_vars(NextTotal)

---------------------------------------------------------------------------
(* calculate_actual_total on the records of a scanned tree *)

\* the bytes of the files that a directory of the tree holds directly
FileBytes == {0, 400, 600}

\* a variant of get_size that leaves the directories of path out
get_size_files(path) == dir_files[path]

\* get_size of a directory: the bytes of its files, lines 50-54, and get_size
\* of each of its directories, lines 55-56
RECURSIVE get_size(_), get_size_entries(_)
get_size(path) ==
    dir_files[path]
      + get_size_entries({ d \in DOMAIN dir_files : d # <<>> /\ dirname(d) = path })

get_size_entries(dirs) ==
    IF dirs = {} THEN 0
    ELSE LET d == CHOOSE x \in dirs : TRUE
         IN get_size(d) + get_size_entries(dirs \ {d})

\* the directories that os.scandir(path) lists
subdirs(path) == { d \in DOMAIN dir_files : d # <<>> /\ dirname(d) = path }

\* analyze_directory(root_path, max_depth=3)
DefaultMaxDepth == 3

\* scan_dir(path, depth), lines 255-315: nothing beyond max_depth; else, for
\* every directory of path, a record with size = get_size if that is not 0,
\* and the scan of the directory one level deeper
RECURSIVE scan_dir(_, _, _), scan_entries(_, _, _)
scan_dir(path, depth, max_depth) ==
    IF depth > max_depth THEN {}
    ELSE scan_entries(subdirs(path), depth, max_depth)

scan_entries(dirs, depth, max_depth) ==
    IF dirs = {} THEN {}
    ELSE LET dir_path == CHOOSE x \in dirs : TRUE
             size == get_size(dir_path)
         IN (IF size > 0 THEN {[path |-> dir_path, size |-> size]} ELSE {})
              \cup scan_dir(dir_path, depth + 1, max_depth)
              \cup scan_entries(dirs \ {dir_path}, depth, max_depth)

\* analyze_directory, line 318: the walk from the scan root, which hands its
\* records to calculate_actual_total
Scan ==
    /\ t_pc = "scan"
    /\ \E max_depth \in 0..DefaultMaxDepth :
        folder_data' = scan_dir(<<>>, 0, max_depth)
    /\ t_pc' = "start"
    /\ UNCHANGED <<dir_files, all_paths, parent_paths, todo, parent,
                   actual_total, leaf_or_independent>>
    /\ UNCHANGED dupvars

\* a tree of directories below the scan root, each with files or without,
\* not yet scanned
InitTree ==
    /\ \E dirs \in SUBSET (DirPaths \ {<<>>}) :
        /\ Cardinality(dirs) <= MaxDirs
        /\ \A d \in dirs : Len(d) = 1 \/ dirname(d) \in dirs
        /\ dir_files \in [dirs -> FileBytes]
    /\ folder_data = {}
    /\ t_pc = "scan"
    /\ all_paths = {}
    /\ parent_paths = {}
    /\ todo = {}
    /\ parent = <<>>
    /\ actual_total = 0
    /\ leaf_or_independent = {}
    /\ DupIdle

NextTree ==
    \/ Scan
    \/ TotalStart
    \/ TotalPick
    \/ TotalWalk
    \/ TotalWalkEnd
    \/ TotalReturn

SpecTree == InitTree /\ [][NextTree]_vars

SpecReadable == InitReadable /\ [][Next]_vars

SpecWorkers == InitWorkers /\ [][Next]_vars

\* the interpreter and the workers of the pool keep running: a statement that
\* can be executed is executed, a task that was taken completes or fails
SpecFair == InitOneSize /\ [][Next]_vars /\ WF_vars(Next)

---------------------------------------------------------------------------
(* Vocabulary of the properties *)

Done == pc = "done"

InputPaths == { file_data[i].path : i \in 1..Len(file_data) }

\* the size of the record of path p
SizeOf(p) == file_data[CHOOSE i \in 1..Len(file_data) : file_data[i].path = p].size

\* the records of the input as the walker made them, without a hash
InputRecords == [i \in 1..Len(file_data) |-> [file_data[i] EXCEPT !.hash = None]]

GroupPaths(group) == { group[i].path : i \in 1..Len(group) }

Members(groups) == UNION { GroupPaths(groups[i]) : i \in 1..Len(groups) }

\* both reads of the file succeed
IsReadable(p) == disk[p].quick_ok /\ disk[p].full_ok

\* the bytes saved by keeping one copy of the group
WastedOf(group) == group[1].size * (Len(group) - 1)

RECURSIVE SumWasted(_)
SumWasted(groups) ==
    IF groups = <<>> THEN 0 ELSE WastedOf(Head(groups)) + SumWasted(Tail(groups))

ProperAncestor(a, b) == Len(a) < Len(b) /\ SubSeq(b, 1, Len(a)) = a

---------------------------------------------------------------------------
(* C1: for two directory records A and B where A's path is a proper ancestor
   of B's path, calculate_actual_total returns A.size as the total and B is
   not in the leaf set, which is {A}.  (The code returns the records that are
   nobody's parent: for {/x 1000, /x/y 400} the total is 400 and the leaf
   set is {/x/y}.) *)
C1_AncestorAloneIsCounted ==
    t_pc = "done" =>
        \A A \in folder_data, B \in folder_data :
            (folder_data = {A, B} /\ ProperAncestor(A.path, B.path)) =>
                /\ actual_total = A.size
                /\ B \notin leaf_or_independent
                /\ leaf_or_independent = {A}

(* C2: with hashing enabled, every returned group has at least 2 members and
   all its members carry the same size and the same hash value, whatever
   reads fail. *)
C2_GroupValidity ==
    (Done /\ use_md5) =>
        \A k \in 1..Len(duplicate_groups) :
            LET group == duplicate_groups[k] IN
            /\ Len(group) >= 2
            /\ \A i \in 1..Len(group) :
                /\ group[i].size = group[1].size
                /\ group[i].hash = group[1].hash
                /\ group[i].hash # None

\* a group was returned although a file that reached the full-hash stage
\* could not be read there
C2_Witness ==
    /\ Done /\ use_md5
    /\ duplicate_groups # <<>>
    /\ \E p \in full_hashed : ~disk[p].full_ok

(* C3: no record with size < 1024 is in a returned group or in the flat
   duplicate list, in either mode; when the only files of equal size are
   below 1024 bytes there is no group at all. *)
C3_ThresholdRespected ==
    Done =>
        /\ \A i \in 1..Len(duplicates) : duplicates[i].size >= MinSize
        /\ \A k \in 1..Len(duplicate_groups) :
               \A i \in 1..Len(duplicate_groups[k]) :
                   duplicate_groups[k][i].size >= MinSize
        /\ (\A p \in InputPaths, q \in InputPaths :
                (p # q /\ SizeOf(p) = SizeOf(q)) => SizeOf(p) < MinSize)
           => duplicate_groups = <<>>

\* two files of the same size below the threshold were given, and the call
\* has returned
C3_Witness ==
    /\ Done
    /\ \E p \in InputPaths, q \in InputPaths :
           p # q /\ SizeOf(p) = SizeOf(q) /\ SizeOf(p) < MinSize

(* C4: with hashing enabled, two readable files of the same size >= 1024 and
   identical content are members of one returned group. *)
C4_NoFalseNegatives ==
    (Done /\ use_md5) =>
        \A p \in InputPaths, q \in InputPaths :
            ( /\ p # q
              /\ SizeOf(p) = SizeOf(q) /\ SizeOf(p) >= MinSize
              /\ disk[p].content = disk[q].content
              /\ IsReadable(p) /\ IsReadable(q) )
            => \E k \in 1..Len(duplicate_groups) :
                   {p, q} \subseteq GroupPaths(duplicate_groups[k])

\* two readable identical files were given together with a third file of
\* their size, so that the stages ran on the pool
C4_Witness ==
    /\ Done /\ use_md5
    /\ Len(hash_tasks) > PoolThreshold
    /\ \E p \in InputPaths, q \in InputPaths :
           /\ p # q
           /\ SizeOf(p) = SizeOf(q) /\ SizeOf(p) >= MinSize
           /\ disk[p].content = disk[q].content
           /\ IsReadable(p) /\ IsReadable(q)

\* Scenario A: /a, /b, /c of size 2000, all readable, /a and /b of one content
\* and /c of another with the same first block
ScenarioA ==
    /\ Len(file_data) = 3
    /\ \A p \in 1..3 : SizeOf(p) = 2000 /\ IsReadable(p)
    /\ disk[1].content = <<1, 1>>
    /\ disk[2].content = <<1, 1>>
    /\ disk[3].content = <<1, 2>>

(* C5: with hashing enabled, two files of the same size and quick fingerprint
   whose contents differ are never members of one group; for three files of
   size 2000 with contents X, X, Y the result is the one group {/a, /b} and
   the wasted space is 2000. *)
C5_FullFingerprintDecides ==
    (Done /\ use_md5) =>
        /\ \A k \in 1..Len(duplicate_groups) :
               \A p \in GroupPaths(duplicate_groups[k]),
                  q \in GroupPaths(duplicate_groups[k]) :
                   ( /\ SizeOf(p) = SizeOf(q)
                     /\ calculate_quick_hash(p, SizeOf(p))
                            = calculate_quick_hash(q, SizeOf(q)) )
                   => disk[p].content = disk[q].content
        /\ ScenarioA =>
               /\ Len(duplicate_groups) = 1
               /\ Len(duplicate_groups[1]) = 2
               /\ GroupPaths(duplicate_groups[1]) = {1, 2}
               /\ wasted_space(duplicate_groups) = 2000

C5_Witness == Done /\ use_md5 /\ ScenarioA

(* C6: a full-content hash is computed for a file only if the file was quick
   hashed successfully and another successfully quick-hashed file has the
   same size and the same quick fingerprint. *)
C6_Funnel ==
    \A p \in full_hashed :
        /\ p \in quick_hashed
        /\ calculate_quick_hash(p, SizeOf(p)) # None
        /\ \E q \in quick_hashed \ {p} :
               /\ SizeOf(q) = SizeOf(p)
               /\ calculate_quick_hash(q, SizeOf(q))
                      = calculate_quick_hash(p, SizeOf(p))

\* two files were full hashed, while a third of their size, quick hashed
\* successfully to a fingerprint of its own, was not
C6_Witness ==
    /\ Done
    /\ full_hashed # {}
    /\ \E p \in quick_hashed \ full_hashed :
           disk[p].quick_ok /\ \A q \in full_hashed : SizeOf(q) = SizeOf(p)

(* C7: the reported wasted space, the sum of the sizes of all members but the
   first of every group, equals the sum over the groups of
   size * (len(group) - 1), in hashing and in fast mode. *)
C7_WastedSpaceArithmetic ==
    Done => wasted_space(duplicate_groups) = SumWasted(duplicate_groups)

\* two groups were returned, one of them with three members
C7_Witness ==
    /\ Done
    /\ Len(duplicate_groups) >= 2
    /\ \E k \in 1..Len(duplicate_groups) : Len(duplicate_groups[k]) = 3

\* what find_duplicates returns when every result is processed in the order
\* of its task: one of the runs the pool can make
InOrderGroups ==
    LET candidates == PotentialDuplicates(InputRecords)
        quick == CollectQuick(<<>>, Tasks(Flatten(candidates)))
        need == FilesNeedingFullHash(quick)
        full == CollectFull(<<>>, Tasks(need))
    IN IF candidates = <<>> THEN <<>>
       ELSE IF ~use_md5 THEN SortGroups(SortedGroups(candidates))
       ELSE IF need = <<>> THEN <<>>
       ELSE SortGroups(SortedGroups(FilterLen(full, 2)))

(* C8: two runs of find_duplicates over the same records and contents return
   the same groups in the same order, with the same members in the same
   order, whatever order the pool delivers its results in: every run returns
   what the run with in-order delivery returns. *)
C8_Determinism ==
    Done => duplicate_groups = InOrderGroups

(* C9: the returned groups are ordered by wasted space descending,
   wastedSpace(group) = size * (memberCount - 1): of two consecutive groups
   the first wastes at least as much as the second. *)
C9_OrderedByWastedSpace ==
    Done =>
        \A k \in 1..(Len(duplicate_groups) - 1) :
            WastedOf(duplicate_groups[k]) >= WastedOf(duplicate_groups[k + 1])

(* C10: groups that tie on the primary sort key (as many members of the same
   size, so that they tie on len * size and on wasted space alike) are
   ordered by the path of their first member. *)
C10_TiesByFirstPath ==
    Done =>
        \A k \in 1..(Len(duplicate_groups) - 1) :
            ( /\ Len(duplicate_groups[k]) = Len(duplicate_groups[k + 1])
              /\ duplicate_groups[k][1].size = duplicate_groups[k + 1][1].size )
            => duplicate_groups[k][1].path < duplicate_groups[k + 1][1].path

\* the paths of the list ascend strictly
Ascending(files) ==
    \A i \in 1..(Len(files) - 1) : files[i].path < files[i + 1].path

(* C11: within every returned group the members are in strictly ascending
   order of path, whatever the order of the input records and whatever order
   the parallel results arrived in, with hashing and in fast mode. *)
C11_MembersAscending ==
    Done => \A k \in 1..Len(duplicate_groups) : Ascending(duplicate_groups[k])

\* a returned group of three that was collected out of path order
C11_Witness ==
    /\ Done
    /\ \E i \in 1..Len(full_hash_groups) :
        /\ Len(full_hash_groups[i].files) = 3
        /\ ~Ascending(full_hash_groups[i].files)
        /\ \E k \in 1..Len(duplicate_groups) :
            GroupPaths(duplicate_groups[k]) = GroupPaths(full_hash_groups[i].files)

(* C12: with hashing, a file whose quick hash or full hash fails is at no
   time a member of a group or an entry of the flat duplicate list. *)
C12_FailedFilesExcluded ==
    use_md5 =>
        \A p \in InputPaths :
            ( \/ p \in quick_hashed /\ ~disk[p].quick_ok
              \/ p \in full_hashed /\ ~disk[p].full_ok )
            => /\ p \notin Members(duplicate_groups)
               /\ p \notin GroupPaths(duplicates)
               /\ p \notin GroupPaths(Flatten(full_hash_groups))

\* a group was returned although the quick hash of a file of the group's size
\* failed
C12_Witness ==
    /\ Done
    /\ use_md5
    /\ duplicate_groups # <<>>
    /\ \E p \in quick_hashed :
        /\ ~disk[p].quick_ok
        /\ SizeOf(p) = duplicate_groups[1][1].size

\* what find_duplicates returns for the records fd when every result is
\* collected in the order of its task
FindDuplicatesInOrder(fd) ==
    LET candidates == PotentialDuplicates(fd)
        quick == CollectQuick(<<>>, Tasks(Flatten(candidates)))
        need == FilesNeedingFullHash(quick)
        full == CollectFull(<<>>, Tasks(need))
    IN IF candidates = <<>> THEN <<>>
       ELSE IF ~use_md5 THEN SortGroups(SortedGroups(candidates))
       ELSE IF need = <<>> THEN <<>>
       ELSE SortGroups(SortedGroups(FilterLen(full, 2)))

\* the input without the records of the files that cannot be read
ReadableRecords == SelectSeq(InputRecords, LAMBDA f : IsReadable(f.path))

\* the groups as a set of sets of paths
GroupPathSets(groups) == { GroupPaths(groups[k]) : k \in 1..Len(groups) }

(* C13: a hash failure on one file does not change the outcome for the
   other files: the groups a run with hashing returns, as sets of paths, are
   the groups of the same input without the unreadable files. *)
C13_SkipAndContinue ==
    (Done /\ use_md5) =>
        GroupPathSets(duplicate_groups)
            = GroupPathSets(FindDuplicatesInOrder(ReadableRecords))

\* a group was returned by a run in which the full hash of a file of the
\* group's size and first block failed and the quick hash of no file failed
C13_Witness ==
    /\ Done
    /\ use_md5
    /\ Len(duplicate_groups) = 1
    /\ \A p \in InputPaths : disk[p].quick_ok
    /\ \E q \in full_hashed :
        /\ ~disk[q].full_ok
        /\ SizeOf(q) = duplicate_groups[1][1].size
        /\ q \notin GroupPaths(duplicate_groups[1])

\* the input paths of size s
PathsOfSize(s) == { p \in InputPaths : SizeOf(p) = s }

\* the sizes of at least MinSize that two or more input files have
SharedSizes ==
    { s \in { SizeOf(p) : p \in InputPaths } :
        s >= MinSize /\ Cardinality(PathsOfSize(s)) >= 2 }

(* C14: in fast mode no file is quick-hashed or full-hashed, and the returned
   groups are exactly the size buckets: one group for every size of at least
   1024 bytes that two or more files have, holding all the files of that
   size, whatever their contents. *)
C14_FastModeSizeBuckets ==
    ~use_md5 =>
        /\ quick_hashed = {}
        /\ full_hashed = {}
        /\ Done =>
            /\ Len(duplicate_groups) = Cardinality(SharedSizes)
            /\ GroupPathSets(duplicate_groups)
                 = { PathsOfSize(s) : s \in SharedSizes }

\* Scenario D: fast mode returned one group that holds two files of the same
\* size and of different contents
C14_Witness ==
    /\ Done
    /\ ~use_md5
    /\ Len(duplicate_groups) = 1
    /\ \E i, j \in 1..Len(duplicate_groups[1]) :
        disk[duplicate_groups[1][i].path].content
            # disk[duplicate_groups[1][j].path].content

\* the membership of the groups of a dict: its keys, each with the paths of
\* its files
KeyedMembers(d) == { <<d[i].key, GroupPaths(d[i].files)>> : i \in 1..Len(d) }

\* the quick-hash groups and the full-hash groups of the input when every
\* result is collected in the order of its task
InOrderQuickGroups ==
    CollectQuick(<<>>, Tasks(Flatten(PotentialDuplicates(InputRecords))))

InOrderFullGroups ==
    CollectFull(<<>>, Tasks(FilesNeedingFullHash(InOrderQuickGroups)))

(* C15: the membership of every (size, fingerprint) group built from the
   results of the stage is the same for every order in which the results
   arrive, in the quick stage and in the full stage: when a stage has
   collected its last result, its groups have the keys and the members that
   collecting the results in task order gives. *)
C15_MembershipIndependentOfArrival ==
    /\ pc = "select"
         => KeyedMembers(quick_hash_groups) = KeyedMembers(InOrderQuickGroups)
    /\ pc = "extract"
         => KeyedMembers(full_hash_groups) = KeyedMembers(InOrderFullGroups)

\* both stages ran in the pool and collected their results in an order that
\* is not the order of the tasks
C15_Witness ==
    /\ pc = "extract"
    /\ Len(hash_tasks) > PoolThreshold
    /\ Len(files_needing_full_hash) > PoolThreshold
    /\ Flatten(quick_hash_groups) # Flatten(InOrderQuickGroups)
    /\ Flatten(full_hash_groups) # Flatten(InOrderFullGroups)
    /\ \E i \in 1..Len(full_hash_groups) : Len(full_hash_groups[i].files) >= 2

\* a tracked path other than that of record r lies below it, at any distance
HasTrackedDescendant(r) ==
    \E q \in folder_data : ProperAncestor(r.path, q.path)

(* C16: calculate_actual_total returns a record as leaf or independent if and
   only if no other tracked path has its path as a proper ancestor, at any
   distance, the directories in between tracked or not.  (The code walks up
   from a path only while the parent is tracked: for {/x, /x/y/z} with /x/y
   untracked it returns /x as a leaf.) *)
C16_LeafIffNoTrackedDescendant ==
    t_pc = "done" =>
        \A r \in folder_data :
            r \in leaf_or_independent <=> ~HasTrackedDescendant(r)

\* the sum of the sizes of the records, counted size by size: every size in
\* sizes times the number of records that have it
RECURSIVE SumBySize(_, _)
SumBySize(sizes, records) ==
    IF sizes = {} THEN 0
    ELSE LET s == CHOOSE x \in sizes : TRUE
         IN s * Cardinality({ r \in records : r.size = s })
              + SumBySize(sizes \ {s}, records)

(* C17: the total that calculate_actual_total returns is the sum of the
   sizes of exactly the records of the leaf set it returns, which are records
   of the input; for the empty input it returns total 0 and no leaf. *)
C17_TotalIsSumOfLeaves ==
    t_pc = "done" =>
        /\ leaf_or_independent \subseteq folder_data
        /\ actual_total
             = SumBySize({ r.size : r \in leaf_or_independent },
                         leaf_or_independent)
        /\ folder_data = {} => actual_total = 0 /\ leaf_or_independent = {}

\* a total was returned for two leaves of the same size and a parent
C17_Witness ==
    /\ t_pc = "done"
    /\ \E a \in leaf_or_independent, b \in leaf_or_independent :
        a # b /\ a.size = b.size
    /\ leaf_or_independent # folder_data

(* C18: the leaf records that calculate_actual_total returns do not overlap:
   the path of no returned leaf is a proper ancestor of the path of another
   returned leaf.  (For {/x, /x/y/z} with /x/y untracked the code returns
   both records.) *)
C18_LeavesDoNotOverlap ==
    t_pc = "done" =>
        \A a \in leaf_or_independent, b \in leaf_or_independent :
            ~ProperAncestor(a.path, b.path)

\* the bytes of all the files in the directories dirs of the tree
RECURSIVE BytesIn(_)
BytesIn(dirs) ==
    IF dirs = {} THEN 0
    ELSE LET d == CHOOSE x \in dirs : TRUE
         IN dir_files[d] + BytesIn(dirs \ {d})

\* every directory of the tree has a record
EveryDirectoryTracked ==
    DOMAIN dir_files = { r.path : r \in folder_data }

(* C19: every byte is counted once: when every directory of the scanned tree
   is tracked, each record's size being the bytes of all the files of its
   subtree, the total is the bytes of all the files in the tracked
   directories, the files stored directly in a directory that has tracked
   subdirectories included.  (The code sums the leaves only: for /x with 600
   bytes of files and /x/y with 400 it returns 400.) *)
C19_EveryByteCountedOnce ==
    (t_pc = "done" /\ EveryDirectoryTracked) =>
        actual_total = BytesIn(DOMAIN dir_files)

\* the file of path p is in a size bucket that find_duplicates keeps: it has at
\* least MinSize bytes and another input file has its size
InKeptBucket(p) ==
    /\ SizeOf(p) >= MinSize
    /\ \E q \in InputPaths : q # p /\ SizeOf(q) = SizeOf(p)

(* C20: no file below 1024 bytes and no file whose size no other input file
   has is ever quick-hashed or full-hashed, and hashing tasks are made only
   for members of size buckets with at least 2 files: at every moment every
   hashed path and every path of a task is in such a bucket. *)
C20_OnlyBucketMembersHashed ==
    \A p \in quick_hashed \cup full_hashed
             \cup TaskPaths(hash_tasks) \cup TaskPaths(full_hash_tasks) :
        InKeptBucket(p)

\* two files were hashed and a file below MinSize, alone of its size, was not
C20_Witness ==
    /\ Done
    /\ Cardinality(quick_hashed) = 2
    /\ full_hashed = quick_hashed
    /\ \E p \in InputPaths \ quick_hashed : SizeOf(p) < MinSize

(* C21: in both hashing stages, for every call of find_duplicates, no more
   hashing tasks execute at a time than min(available cores, 8).  (A caller's
   num_workers is taken as it is: with num_workers = 3 on 2 cores the pool
   runs 3 chunks at a time.) *)
C21_ConcurrencyBounded ==
    pc \in {"quick", "full"} =>
        Cardinality(running) <= Min(cores, MaxWorkers)

\* at the end of a stage every task of the stage has been handed to its hash
\* function, and a stage served by the pool has collected as many results as
\* it has tasks
StageCollected ==
    /\ pc = "select" =>
        /\ quick_hashed = TaskPaths(hash_tasks)
        /\ Len(hash_tasks) > PoolThreshold => processed = Len(hash_tasks)
    /\ pc = "extract" =>
        /\ full_hashed = TaskPaths(full_hash_tasks)
        /\ Len(full_hash_tasks) > PoolThreshold => processed = Len(full_hash_tasks)

(* C22: for every finite input, when every hashing task completes or fails,
   find_duplicates returns in the end, and at the end of each stage the
   result of every task of the stage, a hash or a failure, has been collected
   once; no stage waits for a failed task. *)
C22_EventuallyReturns ==
    /\ <>Done
    /\ []StageCollected

\* a run returned after both stages were served by the pool and a task of
\* the full stage failed
C22_Witness ==
    /\ Done
    /\ Len(hash_tasks) > PoolThreshold
    /\ Len(full_hash_tasks) > PoolThreshold
    /\ processed = Len(full_hash_tasks)
    /\ \E p \in full_hashed : ~disk[p].full_ok

\* what a step may do to the input list: no record added, removed or moved,
\* path and size kept, a hash written only where there was none and only as
\* the file's full-content fingerprint; nothing at all in fast mode
FrameStep ==
    /\ Len(file_data') = Len(file_data)
    /\ \A i \in 1..Len(file_data) :
        /\ file_data'[i].path = file_data[i].path
        /\ file_data'[i].size = file_data[i].size
        /\ file_data'[i].hash # file_data[i].hash =>
            /\ file_data[i].hash = None
            /\ file_data'[i].hash # None
            /\ file_data'[i].hash
                 = calculate_full_hash(file_data[i].path, file_data[i].size)
    /\ ~use_md5 => file_data' = file_data

\* a returned record is an input record, but for its hash, which is none or
\* the file's full-content fingerprint
ReturnedRecordsFramed ==
    \A k \in 1..Len(duplicate_groups) : \A i \in 1..Len(duplicate_groups[k]) :
        LET r == duplicate_groups[k][i] IN
        /\ r.path \in InputPaths
        /\ r.size = SizeOf(r.path)
        /\ r.hash \in {None, calculate_full_hash(r.path, r.size)}

(* C23: find_duplicates leaves every field of every file record other than
   hash unchanged, adds and removes no record of the input list, and writes a
   record's hash at most once and only with the file's full-content
   fingerprint; in fast mode it modifies no record. *)
C23_FrameOfFindDuplicates ==
    /\ [][FrameStep]_vars
    /\ [](Done => ReturnedRecordsFramed)

\* a run returned having written the hash of one input record and left
\* another input record without a hash
C23_Witness ==
    /\ Done
    /\ \E i, j \in 1..Len(file_data) :
        /\ file_data[i].hash # None
        /\ file_data[j].hash = None

(* C24: calculate_actual_total terminates for every finite set of directory
   records, the sets that hold the root and one of its children included:
   the walk over the parents ends and the function returns.  (The parent of
   the root is the root: once the walk reaches a tracked root, line 364
   leaves parent as it is and the test of line 362 stays true.) *)
C24_TotalTerminates ==
    <>(t_pc = "done")

(* C25: the sequential hashing path and the worker-pool path are equivalent:
   for the same input and the same outcome of every hash, a run returns the
   set of groups, with the members, that the sequential loops over the tasks
   give, and the files that reached its full-hash stage are the files that
   reach it in the sequential loops. *)
C25_PoolEquivalentToSequential ==
    (Done /\ use_md5) =>
        /\ GroupPathSets(duplicate_groups)
             = GroupPathSets(FindDuplicatesInOrder(InputRecords))
        /\ GroupPaths(files_needing_full_hash)
             = GroupPaths(FilesNeedingFullHash(InOrderQuickGroups))
        /\ full_hashed = GroupPaths(files_needing_full_hash)

\* a run returned a group after both stages were served by the pool, the
\* quick stage collecting out of task order, and a full hash failed
C25_Witness ==
    /\ Done
    /\ duplicate_groups # <<>>
    /\ Len(hash_tasks) > PoolThreshold
    /\ Len(full_hash_tasks) > PoolThreshold
    /\ Flatten(quick_hash_groups) # Flatten(InOrderQuickGroups)
    /\ \E p \in full_hashed : ~disk[p].full_ok

\* the number of members of the groups, group by group
RECURSIVE SumLen(_)
SumLen(groups) ==
    IF groups = <<>> THEN 0 ELSE Len(Head(groups)) + SumLen(Tail(groups))

\* the records of the groups
GroupRecords(groups) ==
    UNION { { groups[k][i] : i \in 1..Len(groups[k]) } : k \in 1..Len(groups) }

(* C26: the flat duplicate list that find_duplicates returns holds exactly
   the members of the returned groups, every record once, so that its length
   is the sum of the lengths of the groups; with hashing, in fast mode, and
   when no group is found, both results being empty then. *)
C26_FlatListIsGroupMembers ==
    Done =>
        /\ { duplicates[i] : i \in 1..Len(duplicates) }
             = GroupRecords(duplicate_groups)
        /\ Cardinality(GroupPaths(duplicates)) = Len(duplicates)
        /\ Len(duplicates) = SumLen(duplicate_groups)
        /\ duplicate_groups = <<>> <=> duplicates = <<>>

\* two groups were returned whose order is not the order of their members
\* in the flat list
C26_Witness ==
    /\ Done
    /\ Len(duplicate_groups) = 2
    /\ Len(duplicates) = 5
    /\ duplicates[1] \notin { duplicate_groups[1][i] :
                                i \in 1..Len(duplicate_groups[1]) }

(* C27: the returned groups are pairwise disjoint: the paths of the input
   being unique, every file record is a member of at most one group and is
   in it once, with hashing and in fast mode. *)
C27_GroupsDisjoint ==
    Done =>
        /\ \A k \in 1..Len(duplicate_groups), l \in 1..Len(duplicate_groups) :
            k # l => GroupPaths(duplicate_groups[k])
                       \cap GroupPaths(duplicate_groups[l]) = {}
        /\ \A k \in 1..Len(duplicate_groups) :
            Cardinality(GroupPaths(duplicate_groups[k])) = Len(duplicate_groups[k])

\* hashing returned two groups of files of one size
C27_Witness ==
    /\ Done
    /\ use_md5
    /\ Len(duplicate_groups) = 2
    /\ duplicate_groups[1][1].size = duplicate_groups[2][1].size

\* what find_duplicates returns for the records fd in fast mode
FastModeGroups(fd) == SortGroups(SortedGroups(PotentialDuplicates(fd)))

(* C28: hashing only refines the grouping by size: for the same input, every
   group returned with hashing is a subset of exactly one group returned in
   fast mode, the size bucket of its members, so that the files reported as
   duplicates with hashing are among those reported in fast mode. *)
C28_HashingRefinesSizeGroups ==
    LET fast == FastModeGroups(InputRecords) IN
    /\ (Done /\ ~use_md5) => duplicate_groups = fast
    /\ (Done /\ use_md5) =>
        /\ \A k \in 1..Len(duplicate_groups) :
            /\ Cardinality({ l \in 1..Len(fast) :
                   GroupPaths(duplicate_groups[k]) \subseteq GroupPaths(fast[l]) }) = 1
            /\ \E l \in 1..Len(fast) :
                /\ GroupPaths(duplicate_groups[k]) \subseteq GroupPaths(fast[l])
                /\ GroupPaths(fast[l]) = PathsOfSize(duplicate_groups[k][1].size)
        /\ Members(duplicate_groups) \subseteq Members(fast)

\* hashing returned a group that is a part only of the size bucket of its
\* members, while the files of another size are a group in fast mode alone
C28_Witness ==
    /\ Done
    /\ use_md5
    /\ Len(duplicate_groups) = 1
    /\ GroupPaths(duplicate_groups[1]) # PathsOfSize(duplicate_groups[1][1].size)
    /\ Len(FastModeGroups(InputRecords)) = 2

\* the tracked paths
TrackedPaths == { r.path : r \in folder_data }

(* C29: the directory records that the walk of analyze_directory makes over
   an unchanging, fully readable tree are closed under parents below the
   scan root: when a directory is recorded and its parent is not the scan
   root, the parent is recorded too, so that no tracked directory has an
   untracked directory between it and a tracked ancestor or the scan root. *)
C29_WalkClosedUnderParents ==
    t_pc # "scan" =>
        \A r \in folder_data :
            /\ Len(r.path) > 1 => dirname(r.path) \in TrackedPaths
            /\ \A n \in 1..(Len(r.path) - 1) : SubSeq(r.path, 1, n) \in TrackedPaths

\* the walk recorded a directory whose parent holds no file of its own, and
\* max_depth kept a directory that is not empty out of the records
C29_Witness ==
    /\ t_pc = "start"
    /\ \E r \in folder_data :
        /\ Len(r.path) = 2
        /\ dir_files[dirname(r.path)] = 0
    /\ \E d \in DOMAIN dir_files : get_size(d) > 0 /\ d \notin TrackedPaths

====
